---- MODULE Spec2Model ----
(***************************************************************************)
(* dbcleaner: the maintenance run of src/dbcleaner.py (main, process_table,*)
(* dump_table, check_foreign_keys, run_sql) with the collaborators it      *)
(* drives: the database session, the filesystem, the dump subprocess and   *)
(* the object store of src/s3_uploader.py.                                 *)
(***************************************************************************)
EXTENDS Integers, Sequences, FiniteSets, TLC

VARIABLES
    dry_run,    \* args.dry_run
    config,     \* config["databases"]: the database groups and their tables
    pc,         \* position of main / process_table
    di,         \* index of the database group of the for loop at line 298
    ti,         \* index of the table of the for loop at line 311
    connection, \* "none" | "open" | "closed"
    activeDb,   \* database selected on the session by the last USE
    rows,       \* table name -> [match, other]: rows the session sees
    rows0,      \* the rows of each table when the run started
    success,    \* process_table: the value the last dump_table call returned
    results,    \* the results list
    emitted,    \* the results lines logged by the summary loop
    sent,       \* statements executed on the cursor, in order
    commits,    \* number of connection.commit() calls that returned
    committed,  \* the statements whose effect is committed on the server
    sleeps,     \* the time.sleep(delay) calls, in order
    procs,      \* number of dump subprocesses started
    dirs,       \* directories that exist
    files,      \* dump files on disk
    s3,         \* keys stored in the bucket
    uploads,    \* number of upload_file calls
    upload_errors, \* number of "Error uploading ... to S3" lines logged
    rowcount,   \* cursor.rowcount
    conn_params,\* host, user and password read from the environment
    cmdlog,     \* the dump command lines dump_table has logged
    pending,    \* table name -> rows removed on the session, not yet committed
    trace,      \* the steps taken so far, in order
    prev,       \* results and trace of the run before a rerun
    round,      \* number of reruns
    writes,     \* number of writes other sessions made to the tables
    exc,        \* exception propagating in main: "none" | "Error" | "Other"
    escaped     \* exception that left main: "none" | "Other" | "AttributeError"

vars == <<dry_run, config, conn_params, upload_errors, committed, cmdlog, prev, round, writes, pending,
          trace, rows0, success, pc, di, ti, connection, activeDb, rows, results,
          emitted, sent, commits, sleeps, procs, dirs, files, s3, uploads,
          rowcount, exc, escaped>>

(***************************************************************************)
(* Bounds                                                                  *)
(***************************************************************************)
MaxRows == 5
MaxOther == 1
MaxBatch == 2
MaxDelay == 1
GroupRows == 2
MaxWrites == 2

(***************************************************************************)
(* Values                                                                  *)
(***************************************************************************)
\* dict.get(key) of an absent key is None; a present key is Some(v)
None == <<>>
Some(v) == <<v>>
Val(o) == o[1]

\* mutant: only an absent key is false ("is None" instead of truthiness)
TruthyStrNotNone(o) == o # None

\* Python truthiness of table.get(key): None, 0 and "" are false
TruthyInt(o) == o # None /\ Val(o) # 0
TruthyStr(o) == o # None /\ Val(o) # ""

\* str.lower() on the strings of the configurations
Lower(s) ==
    CASE s = "TRUNCATE" -> "truncate"
      [] s = "CONDITION" -> "condition"
      [] s = "OLDER_THAN_DAYS" -> "older_than_days"
      [] s = "S3" -> "s3"
      [] OTHER -> s

Min(a, b) == IF a < b THEN a ELSE b

Strategies ==
    {None, Some("truncate"), Some("TRUNCATE"), Some("condition"),
     Some("older_than_days"), Some("OLDER_THAN_DAYS"), Some("archive")}

BatchSizes == {None} \cup {Some(b) : b \in 0..MaxBatch}

\* dump_before with dump_storage and dump_path
DumpOpts ==
    {[before |-> FALSE, storage |-> "local", path |-> "."],
     [before |-> TRUE, storage |-> "local", path |-> "."],
     [before |-> TRUE, storage |-> "local", path |-> "dumps"],
     [before |-> TRUE, storage |-> "S3", path |-> "dumps"]}

TableSpec(nm, d, fk, st, cond, days, bs, delay, opt) ==
    [name |-> nm, dump_before |-> d.before, dump_storage |-> d.storage,
     dump_path |-> d.path, check_foreign_keys |-> fk, delete_strategy |-> st,
     delete_condition |-> cond, delete_older_than_days |-> days,
     delete_batch_size |-> bs, delete_batch_delay |-> delay,
     run_optimize |-> opt]


\* delete_strategy with the options the strategy reads
DeleteOpts ==
    {[st |-> s, cond |-> None, days |-> None, bs |-> None, delay |-> 0] :
        s \in Strategies \ {Some("condition"), Some("older_than_days")}}
    \cup {[st |-> Some("truncate"), cond |-> None, days |-> None,
           bs |-> Some(1), delay |-> MaxDelay]}
    \cup {[st |-> Some("condition"), cond |-> c, days |-> None, bs |-> None,
           delay |-> 0] : c \in {None, Some("")}}
    \cup {[st |-> Some("older_than_days"), cond |-> None, days |-> None,
           bs |-> b, delay |-> 0] : b \in {None, Some(1)}}
    \cup {[st |-> s.st, cond |-> s.cond, days |-> s.days, bs |-> b, delay |-> d] :
           s \in {[st |-> Some("condition"), cond |-> Some("expired = 1"),
                   days |-> None],
                  [st |-> Some("older_than_days"), cond |-> None,
                   days |-> Some(0)],
                  [st |-> Some("older_than_days"), cond |-> None,
                   days |-> Some(7)]},
           b \in BatchSizes, d \in 0..MaxDelay}

TableSpecs(nm) ==
    {TableSpec(nm, d, fk, x.st, x.cond, x.days, x.bs, x.delay, opt) :
        d \in DumpOpts, fk \in BOOLEAN, x \in DeleteOpts, opt \in BOOLEAN}

Group(nm, tbls) == [name |-> nm, tables |-> tbls]

\* one database group with one table, every table configuration
SingleConfigs == {<<Group("app", <<t>>)>> : t \in TableSpecs("events")}

\* two database groups, three tables, a few table configurations each
GroupSpecs(nm) ==
    {TableSpec(nm, [before |-> TRUE, storage |-> "local", path |-> "dumps"],
               FALSE, Some("truncate"), None, None, None, 0, FALSE),
     TableSpec(nm, [before |-> FALSE, storage |-> "local", path |-> "."],
               FALSE, Some("condition"), Some("expired = 1"), None, Some(1), 0,
               FALSE),
     TableSpec(nm, [before |-> FALSE, storage |-> "local", path |-> "."],
               FALSE, Some("older_than_days"), None, Some(7), None, 0, TRUE)}

MultiConfigs ==
    {<<Group("app", <<a, b>>), Group("crm", <<c>>)>> :
        a \in GroupSpecs("events"), b \in GroupSpecs("logs"),
        c \in GroupSpecs("leads")}
    \cup {<<>>, <<Group("app", <<>>)>>}

\* one group, two tables: a first table with a defect or a remote dump,
\* then a plain one
PairFirst(nm) ==
    {TableSpec(nm, [before |-> FALSE, storage |-> "local", path |-> "."],
               FALSE, Some("condition"), c, None, Some(1), MaxDelay, TRUE) :
        c \in {None, Some("")}}
    \cup {TableSpec(nm, [before |-> TRUE, storage |-> "s3", path |-> "dumps"],
                    TRUE, Some("condition"), Some("expired = 1"), None, None,
                    0, TRUE)}

PairConfigs ==
    {<<Group("app", <<a, b>>)>> :
        a \in PairFirst("events"),
        b \in {TableSpec("logs",
                         [before |-> FALSE, storage |-> "local", path |-> "."],
                         FALSE, Some("truncate"), None, None, None, 0, FALSE)}}

Configs == SingleConfigs \cup MultiConfigs \cup PairConfigs

TableNames == {"events", "logs", "leads"}

(***************************************************************************)
(* Strings as sequences of characters, and the dump command line           *)
(***************************************************************************)
Chars(s) ==
    CASE s = "mysqldump" -> <<"m", "y", "s", "q", "l", "d", "u", "m", "p">>
      [] s = "app" -> <<"a", "p", "p">>
      [] s = "crm" -> <<"c", "r", "m">>
      [] s = "events" -> <<"e", "v", "e", "n", "t", "s">>
      [] s = "logs" -> <<"l", "o", "g", "s">>
      [] s = "leads" -> <<"l", "e", "a", "d", "s">>
      [] s = "db" -> <<"d", "b">>
      [] s = "ops" -> <<"o", "p", "s">>
      [] s = "root" -> <<"r", "o", "o", "t">>
      [] s = "s3c" -> <<"s", "3", "c">>
      [] s = "-h" -> <<"-", "h">>
      [] s = "-u" -> <<"-", "u">>
      [] s = "-p" -> <<"-", "p">>
      [] s = "-p****" -> <<"-", "p", "*", "*", "*", "*">>

\* DB_HOST, DB_USERNAME, DB_PASSWORD
Hosts == {Chars("db")}
Users == {Chars("ops"), Chars("root")}
Passwords == {Chars("s3c"), Chars("root")}

ConnParams ==
    {[host |-> h, user |-> u, password |-> pw] :
        h \in Hosts, u \in Users, pw \in Passwords}

DefaultParams ==
    [host |-> Chars("db"), user |-> Chars("ops"), password |-> Chars("s3c")]

\* ' '.join(args)
RECURSIVE Join(_)
Join(args) ==
    IF Len(args) = 0 THEN <<>>
    ELSE IF Len(args) = 1 THEN args[1]
    ELSE args[1] \o <<" ">> \o Join(Tail(args))

\* old occurs in s at index i
OccursAt(s, i, old) ==
    /\ i + Len(old) - 1 <= Len(s)
    /\ SubSeq(s, i, i + Len(old) - 1) = old

\* sub in s
Contains(s, sub) == \E i \in 1..Len(s) : OccursAt(s, i, sub)

\* s[i:].replace(old, new), old not empty
RECURSIVE ReplaceFrom(_, _, _, _)
ReplaceFrom(s, i, old, new) ==
    IF i > Len(s) THEN <<>>
    ELSE IF OccursAt(s, i, old)
    THEN new \o ReplaceFrom(s, i + Len(old), old, new)
    ELSE <<s[i]>> \o ReplaceFrom(s, i + 1, old, new)

\* s.replace(old, new)
Replace(s, old, new) == ReplaceFrom(s, 1, old, new)

\* dump_args = [mysqldump_cmd, '-h', host, '-u', user, f'-p{password}',
\*              db_name, table_name]
DumpArgs(cp, db, t) ==
    <<Chars("mysqldump"), Chars("-h"), cp.host, Chars("-u"), cp.user,
      Chars("-p") \o cp.password, Chars(db), Chars(t)>>

\* masked_dump = ' '.join(dump_args).replace(f'-p{password}', '-p****')
MaskedDump(cp, db, t) ==
    Replace(Join(DumpArgs(cp, db, t)), Chars("-p") \o cp.password,
            Chars("-p****"))

NoRows == [t \in TableNames |-> [match |-> 0, other |-> 0]]

(***************************************************************************)
(* Helpers                                                                 *)
(***************************************************************************)
Db == config[di]
Tbl == config[di].tables[ti]

Entry(k, nm, n, r) == [kind |-> k, name |-> nm, n |-> n, res |-> r]
Stmt(k, db, t, lim, ok) ==
    [kind |-> k, db |-> db, table |-> t, limit |-> lim, ok |-> ok]

\* dump_file = dump_path/<db>_<table>_<timestamp>.sql.gz
DumpFile(db, t) == [dir |-> t.dump_path, db |-> db, table |-> t.name]
\* s3_key = db_dumps/<file_name>
S3Key(db, t) == [prefix |-> "db_dumps", db |-> db, table |-> t.name]

\* the branch of the if/elif chain on delete_strategy
Branch(t) ==
    IF ~TruthyStr(t.delete_strategy) THEN "none"
    ELSE IF Lower(Val(t.delete_strategy)) = "truncate" THEN "truncate"
    ELSE IF Lower(Val(t.delete_strategy)) = "condition" THEN "condition"
    ELSE IF Val(t.delete_strategy) = "older_than_days" THEN "older_than_days"
    ELSE "none"

\* mutant: run_sql ignores dry_run
ExecutesAlways(dry) == TRUE

\* run_sql executes the statement unless dry_run
Executes(dry) == ~dry

\* mutant: affected = cursor.rowcount in either mode
AffectedRowcount(dry, rc) == rc

\* affected = cursor.rowcount if not dry_run else 0
Affected(dry, rc) == IF ~dry THEN rc ELSE 0

\* mutant: the loop ends on an empty batch only
TerminalZero(affected, batch) == affected = 0

\* mutant: the loop ends on a full batch too
TerminalLeq(affected, batch) == affected <= batch

\* mutant: the loop ends after its first batch
TerminalAlways(affected, batch) == TRUE

\* if affected < batch: break
Terminal(affected, batch) == affected < batch

\* mutant: the pause does not look at the configured delay
PacesWithoutDelay(delay, dry) == ~dry

\* if delay and not dry_run: time.sleep(delay)
Paces(delay, dry) == delay # 0 /\ ~dry

\* mutant: the result of dump_table is not looked at
DumpFailedNever(r) == FALSE

\* if success is None: ... return
DumpFailed(r) == r = None

\* rows a statement removes from a table holding r
Removed(k, lim, r) ==
    CASE k = "TRUNCATE" -> r.match + r.other
      [] k = "DELETE" -> IF lim = 0 THEN r.match ELSE Min(lim, r.match)
      [] OTHER -> 0

\* the table after the statement
After(k, lim, r) ==
    CASE k = "TRUNCATE" -> [match |-> 0, other |-> 0]
      [] k = "DELETE" -> [r EXCEPT !.match = r.match - Removed(k, lim, r)]
      [] OTHER -> r

(***************************************************************************)
(* Control transfers                                                       *)
(***************************************************************************)
\* the for loop over databases takes its next element or ends
AdvanceGroup ==
    /\ di' = di + 1
    /\ ti' = 0
    /\ pc' = IF di + 1 > Len(config) THEN "summary" ELSE "select_db"

\* process_table returned: the for loop over tables takes its next element
AdvanceTable ==
    IF ti < Len(Db.tables)
    THEN pc' = "process_table" /\ ti' = ti + 1 /\ di' = di
    ELSE AdvanceGroup

\* an exception leaves process_table and reaches the try of main
Raise(e) ==
    /\ exc' = e
    /\ pc' = IF e = "Error" THEN "except" ELSE "finally"
    /\ UNCHANGED <<di, ti>>

\* what run_sql returns: cursor.fetchall() when the statement was executed
\* and the cursor holds rows, None otherwise
Fetched(dry, with_rows) ==
    IF Executes(dry) /\ with_rows THEN "rows" ELSE "None"

\* run_sql commits only statements of these kinds (no statement is exempt)
CommitsOptimizeOnly(k) == k = "OPTIMIZE"

\* connection.commit() follows every executed statement
Commits(k) == TRUE

\* statements the server commits by itself when it executes them: they
\* cannot be rolled back
ImplicitCommit(k) == k \in {"TRUNCATE", "OPTIMIZE"}

\* the table once the server has rolled back what the session had not
\* committed
RolledBack ==
    [t \in TableNames |->
        [match |-> rows[t].match + pending[t].match,
         other |-> rows[t].other + pending[t].other]]

\* rows removed on the session and not committed: p before, r to q now
Uncommitted(p, r, q) ==
    [match |-> p.match + (r.match - q.match),
     other |-> p.other + (r.other - q.other)]

\* what the driver does with one statement of run_sql: execute and commit
\* return, execute raises Error, or commit raises Error after the execute
RunOutcomes == {"ok", "execute_error", "commit_error"}

\* run_sql(cursor, connection, sql, dry_run) with the driver's outcome o
RunSql(k, t, lim, o) ==
    IF Executes(dry_run)
    THEN LET stmt == Stmt(k, activeDb, t, lim, o # "execute_error")
             uncommitted ==
                 IF ImplicitCommit(k) THEN NoRows
                 ELSE [pending EXCEPT ![t] =
                         Uncommitted(@, rows[t], After(k, lim, rows[t]))]
         IN  /\ sent' = Append(sent, stmt)
             /\ IF o = "execute_error"
                THEN /\ rowcount' = -1
                     /\ UNCHANGED <<commits, committed, rows, pending>>
                ELSE /\ rowcount' = Removed(k, lim, rows[t])
                     /\ rows' = [rows EXCEPT ![t] = After(k, lim, rows[t])]
                     /\ IF o = "ok" /\ Commits(k)
                        THEN /\ commits' = commits + 1
                             /\ committed' = Append(committed, stmt)
                             /\ pending' = NoRows
                        ELSE \* commit() raised (or was not called)
                             /\ pending' = uncommitted
                             /\ committed' = IF ImplicitCommit(k)
                                             THEN Append(committed, stmt)
                                             ELSE committed
                             /\ UNCHANGED commits
    ELSE UNCHANGED <<sent, commits, committed, rows, pending, rowcount>>

\* run_sql raised Error
Raised(o) == Executes(dry_run) /\ o # "ok"

(***************************************************************************)
(* Initial state: main before mysql.connector.connect                      *)
(***************************************************************************)
InitRows(c) ==
    IF c \in SingleConfigs
    THEN {[t \in TableNames |->
              IF t = "events" THEN [match |-> k, other |-> m]
              ELSE [match |-> 0, other |-> 0]] :
            k \in 0..MaxRows, m \in 0..MaxOther}
    ELSE {[t \in TableNames |-> [match |-> GroupRows, other |-> 1]]}

\* main has parsed its arguments and read the configuration
Start ==
    /\ rows0 = rows
    /\ success = None
    /\ cmdlog = <<>>
    /\ pending = NoRows
    /\ trace = <<>>
    /\ prev = [results |-> <<>>, trace |-> <<>>]
    /\ round = 0
    /\ writes = 0
    /\ pc = "connect"
    /\ di = 1
    /\ ti = 0
    /\ connection = "none"
    /\ activeDb = ""
    /\ results = <<>>
    /\ emitted = <<>>
    /\ sent = <<>>
    /\ commits = 0
    /\ committed = <<>>
    /\ sleeps = <<>>
    /\ procs = 0
    /\ dirs = {"."}
    /\ files = {}
    /\ s3 = {}
    /\ uploads = 0
    /\ upload_errors = 0
    /\ rowcount = -1
    /\ exc = "none"
    /\ escaped = "none"

Init ==
    /\ dry_run \in BOOLEAN
    /\ config \in Configs
    /\ rows \in InitRows(config)
    /\ conn_params = DefaultParams
    /\ Start

(***************************************************************************)
(* main                                                                    *)
(***************************************************************************)
\* connection = mysql.connector.connect(...); results = []; cursor = ...
Connect ==
    /\ pc = "connect"
    /\ trace' = Append(trace, pc)
    /\ \E o \in {"connected", "dropped", "error"} :
          CASE o = "connected" ->
                 /\ connection' = "open"
                 /\ pc' = IF Len(config) = 0 THEN "summary" ELSE "select_db"
                 /\ UNCHANGED <<di, ti, exc>>
            [] o = "dropped" ->
                 \* connection.is_connected() is False: the if has no else
                 /\ connection' = "closed"
                 /\ pc' = "finally"
                 /\ UNCHANGED <<di, ti, exc>>
            [] OTHER ->
                 /\ Raise("Error")
                 /\ UNCHANGED connection
    /\ UNCHANGED <<dry_run, config, conn_params, upload_errors, cmdlog, prev, round, writes,
                   rows0, success, activeDb, rows, pending, results, emitted, sent,
                   commits, committed, sleeps, procs, dirs, files, s3, uploads, rowcount,
                   escaped>>

\* mutant: the except clause of USE has no continue
SelectDatabaseNoContinue ==
    /\ pc = "select_db"
    /\ trace' = Append(trace, pc)
    /\ \E ok \in BOOLEAN :
          /\ sent' = Append(sent, Stmt("USE", Db.name, "", 0, ok))
          /\ IF ok
             THEN /\ activeDb' = Db.name
                  /\ rowcount' = 0
                  /\ results' = Append(results, Entry("UsingDb", Db.name, 0, "None"))
                  /\ IF Len(Db.tables) = 0
                     THEN AdvanceGroup
                     ELSE pc' = "process_table" /\ ti' = 1 /\ di' = di
             ELSE /\ rowcount' = -1
                  /\ results' = Append(results, Entry("DbError", Db.name, 0, "None"))
                  /\ IF Len(Db.tables) = 0
                     THEN AdvanceGroup
                     ELSE pc' = "process_table" /\ ti' = 1 /\ di' = di
                  /\ UNCHANGED activeDb
    /\ UNCHANGED <<dry_run, config, conn_params, upload_errors, cmdlog, prev, round, writes,
                   rows0, success, connection, rows, pending, emitted, commits, committed, sleeps,
                   procs, dirs, files, s3, uploads, exc, escaped>>

\* cursor.execute(f"USE `{db_name}`;") and its except Error: ... continue
SelectDatabase ==
    /\ pc = "select_db"
    /\ trace' = Append(trace, pc)
    /\ \E ok \in BOOLEAN :
          /\ sent' = Append(sent, Stmt("USE", Db.name, "", 0, ok))
          /\ IF ok
             THEN /\ activeDb' = Db.name
                  /\ rowcount' = 0
                  /\ results' = Append(results, Entry("UsingDb", Db.name, 0, "None"))
                  /\ IF Len(Db.tables) = 0
                     THEN AdvanceGroup
                     ELSE pc' = "process_table" /\ ti' = 1 /\ di' = di
             ELSE /\ rowcount' = -1
                  /\ results' = Append(results, Entry("DbError", Db.name, 0, "None"))
                  /\ AdvanceGroup
                  /\ UNCHANGED activeDb
    /\ UNCHANGED <<dry_run, config, conn_params, upload_errors, cmdlog, prev, round, writes,
                   rows0, success, connection, rows, pending, emitted, commits, committed, sleeps,
                   procs, dirs, files, s3, uploads, exc, escaped>>

(***************************************************************************)
(* process_table                                                           *)
(***************************************************************************)
\* msg = "Processing table ..."; results.append(msg)
BeginTable ==
    /\ pc = "process_table"
    /\ trace' = Append(trace, pc)
    /\ results' = Append(results, Entry("Processing", Tbl.name, 0, "None"))
    /\ pc' = "dump"
    /\ UNCHANGED <<dry_run, config, conn_params, upload_errors, cmdlog, prev, round, writes,
                   rows0, success, di, ti, connection, activeDb, rows, pending, emitted,
                   sent, commits, committed, sleeps, procs, dirs, files, s3, uploads,
                   rowcount, exc, escaped>>

\* the local dump file is removed whatever the upload did
RemovesLocalAlways(up) == TRUE

\* os.remove(dump_file) follows upload_file only when it did not raise
RemovesLocal(up) == up = "uploaded"

\* mutant: the simulated dump of a dry run returns None
DumpResultNoneInDryRun(dry, outcome, file) ==
    IF dry THEN None
    ELSE IF outcome = "ok" THEN Some(file) ELSE None

\* the value dump_table returns: dump_file, or None after a failed dump
DumpResult(dry, outcome, file) ==
    IF dry THEN Some(file)
    ELSE IF outcome = "ok" THEN Some(file) ELSE None

\* if table.get("dump_before", False): success = dump_table(...)
DumpStep ==
    /\ pc = "dump"
    /\ trace' = Append(trace, pc)
    /\ IF ~Tbl.dump_before
       THEN /\ pc' = "audit"
            /\ UNCHANGED <<di, ti, results, procs, dirs, files, s3, uploads, exc,
                           success, cmdlog, upload_errors>>
       ELSE \E mk \in BOOLEAN,
               outcome \in {"ok", "nonzero", "popen_error", "stream_error"},
               up \in {"uploaded", "upload_error", "uploader_error"} :
              LET file == DumpFile(Db.name, Tbl)
                  toS3 == Lower(Tbl.dump_storage) = "s3"
              IN  IF ~mk /\ Tbl.dump_path \notin dirs
                  THEN \* os.makedirs raises OSError
                       /\ Raise("Other")
                       /\ UNCHANGED <<results, procs, dirs, files, s3, uploads,
                                      success, cmdlog, upload_errors>>
                  ELSE /\ success' = DumpResult(dry_run, outcome, file)
                       /\ cmdlog' = IF dry_run
                                    THEN Append(cmdlog,
                                           MaskedDump(conn_params, Db.name,
                                                      Tbl.name))
                                    ELSE cmdlog
                       /\ dirs' = dirs \cup {Tbl.dump_path}
                       /\ procs' = IF dry_run \/ outcome = "popen_error"
                                   THEN procs ELSE procs + 1
                       /\ IF dry_run \/ outcome # "ok"
                          THEN UNCHANGED <<files, s3, uploads, upload_errors>>
                          ELSE IF toS3
                          THEN \* S3Uploader() raised: upload_file is not called
                               /\ uploads' = IF up = "uploader_error"
                                             THEN uploads ELSE uploads + 1
                               /\ upload_errors' = IF up = "uploaded"
                                                   THEN upload_errors
                                                   ELSE upload_errors + 1
                               /\ s3' = IF up = "uploaded"
                                        THEN s3 \cup {S3Key(Db.name, Tbl)}
                                        ELSE s3
                               /\ files' = IF RemovesLocal(up)
                                           THEN files \ {file}
                                           ELSE files \cup {file}
                          ELSE /\ files' = files \cup {file}
                               /\ UNCHANGED <<s3, uploads, upload_errors>>
                       /\ IF DumpFailed(success')
                          THEN /\ results' = Append(results,
                                      Entry("SkipDump", Tbl.name, 0, "None"))
                               /\ AdvanceTable
                          ELSE /\ pc' = "audit"
                               /\ UNCHANGED <<di, ti, results>>
                       /\ UNCHANGED exc
    /\ UNCHANGED <<dry_run, config, conn_params, prev, round, writes,
                   rows0, connection, activeDb, rows, pending, emitted,
                   sent, commits, committed, sleeps, rowcount, escaped>>

\* if table.get("check_foreign_keys", False): check_foreign_keys(...)
AuditStep ==
    /\ pc = "audit"
    /\ trace' = Append(trace, pc)
    /\ IF ~Tbl.check_foreign_keys
       THEN UNCHANGED <<results, sent, rowcount>>
       ELSE \E o \in {"found", "empty", "error"} :
              /\ sent' = Append(sent, Stmt("FK", activeDb, Tbl.name, 0, o # "error"))
              /\ rowcount' = CASE o = "found" -> 1 [] o = "empty" -> 0 [] OTHER -> -1
              /\ results' = Append(results,
                     Entry(CASE o = "found" -> "FKFound" [] o = "empty" -> "FKNone"
                             [] OTHER -> "FKError", Tbl.name, 0, "None"))
    /\ pc' = "delete"
    /\ UNCHANGED <<dry_run, config, conn_params, upload_errors, cmdlog, prev, round, writes,
                   rows0, success, di, ti, connection, activeDb, rows, pending, emitted,
                   commits, committed, sleeps, procs, dirs, files, s3, uploads, exc, escaped>>

\* the delete step up to its first statement: truncate, a single delete,
\* a skipped step, or the entry into the batch loop
DeleteStep ==
    /\ pc = "delete"
    /\ trace' = Append(trace, pc)
    /\ LET b == Branch(Tbl)
           single == IF b = "condition" THEN "Deleted" ELSE "DeletedOlder"
       IN
       CASE b = "none" ->
              /\ pc' = "optimize"
              /\ UNCHANGED <<results, sent, commits, committed, rows, pending, rowcount, exc>>
         [] b = "truncate" ->
              \E o \in RunOutcomes :
                /\ RunSql("TRUNCATE", Tbl.name, 0, o)
                /\ results' = Append(results,
                       Entry(IF Raised(o) THEN "TruncateError" ELSE "Truncated",
                             Tbl.name, 0, "None"))
                /\ pc' = "optimize"
                /\ UNCHANGED exc
         [] b = "condition" /\ ~TruthyStr(Tbl.delete_condition) ->
              /\ results' = Append(results, Entry("NoCondition", Tbl.name, 0, "None"))
              /\ pc' = "optimize"
              /\ UNCHANGED <<sent, commits, committed, rows, pending, rowcount, exc>>
         [] b = "older_than_days" /\ Tbl.delete_older_than_days = None ->
              \* logger.warning only
              /\ pc' = "optimize"
              /\ UNCHANGED <<results, sent, commits, committed, rows, pending, rowcount, exc>>
         [] OTHER ->
              IF TruthyInt(Tbl.delete_batch_size)
              THEN /\ pc' = "batch"
                   /\ UNCHANGED <<results, sent, commits, committed, rows, pending, rowcount, exc>>
              ELSE \E o \in RunOutcomes :
                     /\ RunSql("DELETE", Tbl.name, 0, o)
                     /\ IF Raised(o)
                        THEN /\ exc' = "Error"
                             /\ pc' = "except"
                             /\ UNCHANGED results
                        ELSE /\ results' = Append(results,
                                    Entry(single, Tbl.name,
                                          Affected(dry_run, rowcount'), "None"))
                             /\ pc' = "optimize"
                             /\ UNCHANGED exc
    /\ UNCHANGED <<dry_run, config, conn_params, upload_errors, cmdlog, prev, round, writes,
                   rows0, success, di, ti, connection, activeDb, emitted, sleeps,
                   procs, dirs, files, s3, uploads, escaped>>

\* one iteration of while True: DELETE ... LIMIT batch
BatchStep ==
    /\ pc = "batch"
    /\ trace' = Append(trace, pc)
    /\ LET batch == Val(Tbl.delete_batch_size)
       IN \E o \in RunOutcomes :
            /\ RunSql("DELETE", Tbl.name, batch, o)
            /\ IF Raised(o)
               THEN /\ exc' = "Error"
                    /\ pc' = "except"
                    /\ UNCHANGED results
               ELSE LET affected == Affected(dry_run, rowcount')
                    IN /\ results' = Append(results,
                              Entry("BatchDeleted", Tbl.name, affected, "None"))
                       /\ pc' = IF Terminal(affected, batch) THEN "optimize"
                                ELSE IF Paces(Tbl.delete_batch_delay, dry_run)
                                THEN "sleep" ELSE "batch"
                       /\ UNCHANGED exc
    /\ UNCHANGED <<dry_run, config, conn_params, upload_errors, cmdlog, prev, round, writes,
                   rows0, success, di, ti, connection, activeDb, emitted, sleeps,
                   procs, dirs, files, s3, uploads, escaped>>

\* time.sleep(delay) between two batches
SleepStep ==
    /\ pc = "sleep"
    /\ trace' = Append(trace, pc)
    /\ sleeps' = Append(sleeps, [table |-> Tbl.name, after |-> Len(results)])
    /\ pc' = "batch"
    /\ UNCHANGED <<dry_run, config, conn_params, upload_errors, cmdlog, prev, round, writes,
                   rows0, success, di, ti, connection, activeDb, rows, pending, results,
                   emitted, sent, commits, committed, procs, dirs, files, s3, uploads,
                   rowcount, exc, escaped>>

\* if table.get("run_optimize", False): OPTIMIZE TABLE; process_table returns
OptimizeStep ==
    /\ pc = "optimize"
    /\ trace' = Append(trace, pc)
    /\ IF ~Tbl.run_optimize
       THEN UNCHANGED <<results, sent, commits, committed, rows, pending, rowcount>>
       ELSE \E o \in RunOutcomes, with_rows \in BOOLEAN :
              /\ RunSql("OPTIMIZE", Tbl.name, 0, o)
              /\ results' = Append(results,
                     IF Raised(o) THEN Entry("OptimizeError", Tbl.name, 0, "None")
                     ELSE Entry("Optimized", Tbl.name, 0,
                                Fetched(dry_run, with_rows)))
    /\ AdvanceTable
    /\ UNCHANGED <<dry_run, config, conn_params, upload_errors, cmdlog, prev, round, writes,
                   rows0, success, connection, activeDb, emitted, sleeps, procs,
                   dirs, files, s3, uploads, exc, escaped>>

(***************************************************************************)
(* main: summary, except Error, finally                                    *)
(***************************************************************************)
\* for res in results: logger.info(res); cursor.close()
Summary ==
    /\ pc = "summary"
    /\ trace' = Append(trace, pc)
    /\ emitted' = results
    /\ pc' = "finally"
    /\ UNCHANGED <<dry_run, config, conn_params, upload_errors, cmdlog, prev, round, writes,
                   rows0, success, di, ti, connection, activeDb, rows, pending, results,
                   sent, commits, committed, sleeps, procs, dirs, files, s3, uploads,
                   rowcount, exc, escaped>>

\* except Error as e: logger.error("Error connecting to MySQL: %s", e)
Except ==
    /\ pc = "except"
    /\ trace' = Append(trace, pc)
    /\ exc' = "none"
    /\ pc' = "finally"
    /\ UNCHANGED <<dry_run, config, conn_params, upload_errors, cmdlog, prev, round, writes,
                   rows0, success, di, ti, connection, activeDb, rows, pending, results,
                   emitted, sent, commits, committed, sleeps, procs, dirs, files, s3,
                   uploads, rowcount, escaped>>

\* mutant: the close is skipped while an exception propagates
FinallyOnSuccess ==
    /\ pc = "finally"
    /\ trace' = Append(trace, pc)
    /\ IF connection = "none"
       THEN /\ escaped' = "AttributeError"
            /\ UNCHANGED connection
       ELSE /\ connection' = IF connection = "open" /\ exc = "none"
                             THEN "closed" ELSE connection
            /\ escaped' = exc
    /\ exc' = "none"
    /\ pc' = "done"
    /\ UNCHANGED <<dry_run, config, conn_params, upload_errors, cmdlog, prev, round, writes,
                   rows0, success, di, ti, activeDb, rows, pending,
                   results, emitted, sent, commits, committed, sleeps, procs, dirs, files,
                   s3, uploads, rowcount>>

\* finally: if connection.is_connected(): connection.close()
Finally ==
    /\ pc = "finally"
    /\ trace' = Append(trace, pc)
    /\ IF connection = "none"
       THEN \* connection is None: the attribute lookup raises
            /\ escaped' = "AttributeError"
            /\ UNCHANGED <<connection, rows, pending>>
       ELSE \* connection.close(): the server rolls back what was not committed
            /\ connection' = IF connection = "open" THEN "closed" ELSE connection
            /\ rows' = IF connection = "open" THEN RolledBack ELSE rows
            /\ pending' = IF connection = "open" THEN NoRows ELSE pending
            /\ escaped' = exc
    /\ exc' = "none"
    /\ pc' = "done"
    /\ UNCHANGED <<dry_run, config, conn_params, upload_errors, cmdlog, prev, round, writes,
                   rows0, success, di, ti, activeDb, results, emitted,
                   sent, commits, committed, sleeps, procs, dirs, files, s3, uploads,
                   rowcount>>

Next ==
    \/ Connect
    \/ SelectDatabase
    \/ BeginTable
    \/ DumpStep
    \/ AuditStep
    \/ DeleteStep
    \/ BatchStep
    \/ SleepStep
    \/ OptimizeStep
    \/ Summary
    \/ Except
    \/ Finally

Spec == Init /\ [][Next]_vars

(***************************************************************************)
(* Observations used by the properties                                     *)
(***************************************************************************)
Range(f) == {f[i] : i \in DOMAIN f}

\* the "Batch deleted" entries of table t, in order
BatchEntries(t) ==
    SelectSeq(results, LAMBDA e : e.kind = "BatchDeleted" /\ e.name = t)

\* the DELETE ... LIMIT statements sent for table t
BatchStmts(t) ==
    SelectSeq(sent, LAMBDA x : x.kind = "DELETE" /\ x.table = t /\ x.limit > 0)

\* the table runs the batch loop: condition or age-threshold with B > 0
Batched(t) ==
    /\ \/ Branch(t) = "condition" /\ TruthyStr(t.delete_condition)
       \/ Branch(t) = "older_than_days" /\ t.delete_older_than_days # None
    /\ TruthyInt(t.delete_batch_size)

\* the batch loop of the current table has ended by its break
LoopEnded == pc = "optimize" /\ Batched(Tbl)

Ceil(k, b) == (k + b - 1) \div b

Mutating == {"TRUNCATE", "DELETE", "OPTIMIZE"}

(***************************************************************************)
(* C1: when dump_table returns None for a table with dump_before, the      *)
(* table gets a skip entry, no audit, delete or optimize statement is sent *)
(* for it, and the run goes on with the next table.                        *)
(***************************************************************************)
SkippedTablesUntouched ==
    \A e \in Range(results) :
        e.kind = "SkipDump" =>
            \A x \in Range(sent) :
                ~(x.table = e.name /\ x.kind \in Mutating \cup {"FK"})

DumpFailureSkips ==
    (pc = "dump" /\ Tbl.dump_before /\ exc' = "none" /\ success' = None)
        => /\ results' = Append(results, Entry("SkipDump", Tbl.name, 0, "None"))
           /\ sent' = sent
           /\ IF ti < Len(Db.tables)
              THEN pc' = "process_table" /\ di' = di /\ ti' = ti + 1
              ELSE /\ di' = di + 1
                   /\ pc' = IF di = Len(config) THEN "summary" ELSE "select_db"

\* C1: a failed dump skips the table: skip entry, no statement for the
\* table, and the table loop takes its next element
C1_AbortOnDumpFailure ==
    /\ []SkippedTablesUntouched
    /\ [][DumpFailureSkips]_vars

\* a dump failed for the first table and the second table ran to its end
C1_Witness ==
    /\ ~dry_run
    /\ \E i \in DOMAIN results :
          /\ results[i].kind = "SkipDump"
          /\ results[i].name = "events"
    /\ pc = "optimize"
    /\ Tbl.name = "logs"

(***************************************************************************)
(* C2: a real batched delete of K matching rows with batch size B issues   *)
(* ceil(K/B) DELETE ... LIMIT B statements (as claimed), and               *)
(* K div B + 1 of them (as the loop does).                                 *)
(***************************************************************************)
C2_CeilBatches ==
    (LoopEnded /\ ~dry_run) =>
        Len(BatchStmts(Tbl.name)) =
            Ceil(rows0[Tbl.name].match, Val(Tbl.delete_batch_size))

\* C2, amended: a real batched delete of K rows with batch size B issues
\* K div B + 1 batches, which is ceil(K/B) only when B does not divide K
C2_FloorPlusOneBatches ==
    (LoopEnded /\ ~dry_run) =>
        Len(BatchStmts(Tbl.name)) =
            (rows0[Tbl.name].match \div Val(Tbl.delete_batch_size)) + 1

\* a loop over K > 0 rows, B dividing K, ended after K/B + 1 batches
C2_Witness ==
    /\ LoopEnded
    /\ ~dry_run
    /\ rows0[Tbl.name].match > 0
    /\ Val(Tbl.delete_batch_size) > 1
    /\ rows0[Tbl.name].match % Val(Tbl.delete_batch_size) = 0
    /\ Len(BatchStmts(Tbl.name)) =
           (rows0[Tbl.name].match \div Val(Tbl.delete_batch_size)) + 1

(***************************************************************************)
(* C3: the loop stops after the first batch with R < B and not before:     *)
(* every batch but the last affected B rows, the last fewer; in a real run *)
(* the last affected K mod B rows, which is a zero-affected extra batch    *)
(* after K/B full ones when B divides K.                                   *)
(***************************************************************************)
C3_TerminalBatch ==
    LET t == Tbl.name
        es == BatchEntries(t)
        B == Val(Tbl.delete_batch_size)
        K == rows0[t].match
    IN  /\ (pc \in {"batch", "sleep"}) =>
              \A i \in DOMAIN es : es[i].n = B
        /\ LoopEnded =>
              /\ Len(es) >= 1
              /\ \A i \in 1..(Len(es) - 1) : es[i].n = B
              /\ es[Len(es)].n < B
              /\ ~dry_run =>
                    /\ (K % B # 0) => es[Len(es)].n \in 1..(B - 1)
                    /\ (K % B = 0) =>
                          /\ es[Len(es)].n = 0
                          /\ Len(es) = (K \div B) + 1

\* a loop ended by a partial batch after at least one full batch
C3_Witness ==
    /\ LoopEnded
    /\ ~dry_run
    /\ Len(BatchEntries(Tbl.name)) >= 2
    /\ BatchEntries(Tbl.name)[Len(BatchEntries(Tbl.name))].n > 0

(***************************************************************************)
(* C4: in dry run a batched delete is one simulated batch: one             *)
(* "Batch deleted 0 rows" entry, no second iteration, no sleep.            *)
(***************************************************************************)
C4_DryRunOneBatch ==
    dry_run =>
        /\ sleeps = <<>>
        /\ pc # "sleep"
        /\ \A t \in TableNames : Len(BatchEntries(t)) <= 1
        /\ (pc = "batch") => BatchEntries(Tbl.name) = <<>>
        /\ LoopEnded =>
              BatchEntries(Tbl.name) =
                  <<Entry("BatchDeleted", Tbl.name, 0, "None")>>

\* a dry-run loop with a delay configured, over a table that has rows, ended
C4_Witness ==
    /\ dry_run
    /\ LoopEnded
    /\ Tbl.delete_batch_delay > 0
    /\ rows[Tbl.name].match >= Val(Tbl.delete_batch_size)
    /\ Len(BatchEntries(Tbl.name)) = 1

(***************************************************************************)
(* C5: in dry run no TRUNCATE, DELETE or OPTIMIZE reaches the session,     *)
(* nothing is committed, run_sql returns None and raises nothing, and      *)
(* every row count in the results is 0.                                    *)
(***************************************************************************)
C5_DryRunNoMutation ==
    dry_run =>
        /\ \A x \in Range(sent) : x.kind \notin Mutating
        /\ commits = 0
        /\ rows = rows0
        /\ \A e \in Range(results) :
              /\ e.n = 0
              /\ e.res = "None"
              /\ e.kind \notin {"TruncateError", "OptimizeError"}
        /\ (pc = "except") => connection = "none"

\* a dry run went through a delete and an optimize step of a table with rows
C5_Witness ==
    /\ dry_run
    /\ pc = "finally"
    /\ rows0["events"].match > 0
    /\ \E e \in Range(results) : e.kind = "Optimized"
    /\ \E e \in Range(results) :
          e.kind \in {"Truncated", "Deleted", "DeletedOlder", "BatchDeleted"}

(***************************************************************************)
(* C6: in dry run nothing takes effect outside the process: no dump        *)
(* subprocess, no directory or file created, no upload, no statement of    *)
(* any kind on the session.                                                *)
(***************************************************************************)
C6_DryRunNoIO ==
    dry_run =>
        /\ procs = 0
        /\ dirs = {"."}
        /\ files = {}
        /\ uploads = 0
        /\ s3 = {}
        /\ sent = <<>>

(***************************************************************************)
(* C7: every configured step of a table that was processed has at least    *)
(* one entry in the results: backup, foreign-key audit, delete, optimize.  *)
(***************************************************************************)
BackupKinds == {"SkipDump"}
AuditKinds == {"FKFound", "FKNone", "FKError"}
DeleteKinds ==
    {"Truncated", "TruncateError", "NoCondition", "BatchDeleted", "Deleted",
     "DeletedOlder"}
OptimizeKinds == {"Optimized", "OptimizeError"}

HasEntry(t, kinds) ==
    \E e \in Range(results) : e.name = t.name /\ e.kind \in kinds

\* process_table was called for table i of group d and has returned
Returned(d, i) ==
    /\ d < di \/ (d = di /\ i < ti)
    /\ HasEntry(config[d].tables[i], {"Processing"})

C7_EveryStepLogged ==
    \A d \in DOMAIN config : \A i \in DOMAIN config[d].tables :
        LET t == config[d].tables[i]
        IN  Returned(d, i) =>
              /\ t.dump_before => HasEntry(t, BackupKinds)
              /\ ~HasEntry(t, {"SkipDump"}) =>
                    /\ t.check_foreign_keys => HasEntry(t, AuditKinds)
                    /\ TruthyStr(t.delete_strategy) => HasEntry(t, DeleteKinds)
                    /\ t.run_optimize => HasEntry(t, OptimizeKinds)

(***************************************************************************)
(* C8: a TRUNCATE or DELETE that raises Error is recorded for its table    *)
(* and does not end the run: the loops over tables and groups go on.       *)
(***************************************************************************)
C8_DeleteErrorsCaught ==
    \A x \in Range(sent) :
        (x.kind \in {"TRUNCATE", "DELETE"} /\ ~x.ok) =>
            /\ \E e \in Range(results) :
                  e.name = x.table /\ e.kind \in {"TruncateError", "DeleteError"}
            /\ pc # "except"
            /\ (pc = "done" /\ escaped = "none") => di = Len(config) + 1

(***************************************************************************)
(* C9: once the session is open, every end of the run has closed it.       *)
(***************************************************************************)
C9_SessionClosed ==
    (pc = "done" /\ connection # "none") => connection = "closed"

\* the run ended by an exception that is no Error, with the session closed
C9_Witness ==
    /\ pc = "done"
    /\ escaped = "Other"
    /\ connection = "closed"

(***************************************************************************)
(* C10: no exception leaves main.                                          *)
(***************************************************************************)
C10_NoEscape == escaped = "none"

(***************************************************************************)
(* C11: a failed USE is recorded, its group's tables are not processed and *)
(* get no statement, the loop takes the next group, and tables are only    *)
(* ever processed with their own group's database active.                  *)
(***************************************************************************)
TableSteps ==
    {"process_table", "dump", "audit", "delete", "batch", "sleep", "optimize"}

UseFailed(d) ==
    \E x \in Range(sent) : x.kind = "USE" /\ x.db = config[d].name /\ ~x.ok

FailedGroupSkipped ==
    \A d \in DOMAIN config :
        UseFailed(d) =>
            /\ \E e \in Range(results) :
                  e.kind = "DbError" /\ e.name = config[d].name
            /\ \A i \in DOMAIN config[d].tables :
                  /\ \A e \in Range(results) : e.name # config[d].tables[i].name
                  /\ \A x \in Range(sent) : x.table # config[d].tables[i].name

OwnDatabaseActive ==
    /\ (pc \in TableSteps) => activeDb = Db.name
    /\ \A x \in Range(sent) :
          x.kind # "USE" =>
              \E d \in DOMAIN config :
                  /\ x.db = config[d].name
                  /\ \E i \in DOMAIN config[d].tables :
                        config[d].tables[i].name = x.table

SelectionFailureContinues ==
    (pc = "select_db" /\ ~sent'[Len(sent')].ok)
        => /\ di' = di + 1
           /\ pc' = IF di = Len(config) THEN "summary" ELSE "select_db"
           /\ exc' = "none"

\* C11: database selection fails soft and never leaves a foreign database
\* active under a group's tables
C11_SelectionFailureSkipsGroup ==
    /\ [](FailedGroupSkipped /\ OwnDatabaseActive)
    /\ [][SelectionFailureContinues]_vars

\* the USE of the first group failed and a table of the second group is
\* processed with the second database active
C11_Witness ==
    /\ UseFailed(1)
    /\ di = 2
    /\ pc = "optimize"
    /\ activeDb = "crm"
    /\ \E x \in Range(sent) : x.table = "leads" /\ x.db = "crm"

(***************************************************************************)
(* C12: a condition strategy without a predicate is reported as a defect,  *)
(* never as a delete; no DELETE is sent for the table, its optimize step   *)
(* still runs and the table loop goes on.                                  *)
(***************************************************************************)
MissingPredicate(t) ==
    /\ t.delete_strategy \in {Some("condition"), Some("CONDITION")}
    /\ t.delete_condition \in {None, Some("")}

DefectReported ==
    \A d \in DOMAIN config : \A i \in DOMAIN config[d].tables :
        LET t == config[d].tables[i]
        IN  MissingPredicate(t) =>
              /\ \A x \in Range(sent) : ~(x.table = t.name /\ x.kind = "DELETE")
              /\ ~HasEntry(t, DeleteKinds \ {"NoCondition"})
              /\ (d = di /\ i = ti /\ pc = "optimize") =>
                    HasEntry(t, {"NoCondition"})
              /\ (Returned(d, i) /\ ~HasEntry(t, {"SkipDump"})) =>
                    /\ HasEntry(t, {"NoCondition"})
                    /\ t.run_optimize =>
                          /\ HasEntry(t, OptimizeKinds)
                          /\ ~dry_run =>
                                \E x \in Range(sent) :
                                    x.table = t.name /\ x.kind = "OPTIMIZE"

DefectContinues ==
    (pc = "delete" /\ MissingPredicate(Tbl))
        => /\ pc' = "optimize"
           /\ exc' = "none"
           /\ results' = Append(results, Entry("NoCondition", Tbl.name, 0, "None"))
           /\ sent' = sent

\* C12: the missing predicate is a reported defect that stops neither the
\* optimize step nor the run
C12_MissingPredicateReported ==
    /\ []DefectReported
    /\ [][DefectContinues]_vars

\* a table with an empty predicate was reported and optimized, and the next
\* table has been processed
C12_Witness ==
    /\ ~dry_run
    /\ Len(config) = 1
    /\ Len(config[1].tables) = 2
    /\ config[1].tables[1].delete_condition = Some("")
    /\ HasEntry(config[1].tables[1], {"NoCondition"})
    /\ HasEntry(config[1].tables[1], {"Optimized"})
    /\ ti = 2
    /\ pc = "optimize"

(***************************************************************************)
(* Runs over every combination of credentials, for the dump command log    *)
(***************************************************************************)
\* configurations with a dump, without the foreign key audit
DumpConfigs ==
    {c \in Configs :
        /\ \E d \in 1..Len(c) : \E i \in 1..Len(c[d].tables) :
              c[d].tables[i].dump_before
        /\ \A d \in 1..Len(c) : \A i \in 1..Len(c[d].tables) :
              ~c[d].tables[i].check_foreign_keys}

InitDump ==
    /\ dry_run \in BOOLEAN
    /\ config \in DumpConfigs
    /\ rows \in InitRows(config)
    /\ conn_params \in ConnParams
    /\ Start

SpecDump == InitDump /\ [][Next]_vars

\* C13: in every dump command line dump_table has logged, whatever the
\* host, user, password, database and table, the raw password occurs nowhere
\* and the placeholder -p**** stands where the credential argument was.
C13_PasswordNeverLogged ==
    \A i \in 1..Len(cmdlog) :
        /\ ~Contains(cmdlog[i], conn_params.password)
        /\ Contains(cmdlog[i], Chars("-p****"))

(***************************************************************************)
(* C14: in a real run with B > 0 and D > 0 the loop pauses once after every *)
(* batch but the terminal one, so pauses = batches - 1 when the loop has   *)
(* ended; with D = 0 or in dry run it never pauses.                        *)
(***************************************************************************)
\* the pauses taken in the batch loop of table t
Pauses(t) == SelectSeq(sleeps, LAMBDA x : x.table = t.name)

\* the positions in results of the Batch deleted entries of table t
BatchPositions(t) ==
    {i \in 1..Len(results) :
        results[i].kind = "BatchDeleted" /\ results[i].name = t.name}

\* pause j follows batch j, which is full, and one more batch is issued
\* after it
PausesFollowFullBatches(t) ==
    \A j \in 1..Len(Pauses(t)) :
        LET i == Pauses(t)[j].after
        IN  /\ i \in BatchPositions(t)
            /\ Cardinality({h \in BatchPositions(t) : h <= i}) = j
            /\ results[i].n >= Val(t.delete_batch_size)
            /\ ~(pc \in {"sleep", "batch"} /\ Tbl = t)
                   => Len(BatchStmts(t.name)) > j

PausesBetweenBatches ==
    /\ \A d \in 1..Len(config) : \A i \in 1..Len(config[d].tables) :
          LET t == config[d].tables[i]
          IN  IF ~dry_run /\ Batched(t) /\ t.delete_batch_delay > 0
              THEN PausesFollowFullBatches(t)
              ELSE Pauses(t) = <<>>
    /\ LoopEnded /\ ~dry_run /\ Tbl.delete_batch_delay > 0
          => Len(Pauses(Tbl)) = Len(BatchEntries(Tbl.name)) - 1

C14_PausesBetweenBatches == PausesBetweenBatches

\* five matching rows in batches of two: 2, 2, 1 with pauses after the
\* first and the second
C14_Witness ==
    /\ LoopEnded
    /\ ~dry_run
    /\ Tbl.delete_batch_delay > 0
    /\ Val(Tbl.delete_batch_size) = 2
    /\ rows0[Tbl.name].match = 5
    /\ Len(BatchEntries(Tbl.name)) = 3
    /\ BatchEntries(Tbl.name)[3].n = 1
    /\ Len(Pauses(Tbl)) = 2

(***************************************************************************)
(* C15: at the end of every run in which a session was opened, the whole   *)
(* ResultLog has been emitted in its append order, also when a table step  *)
(* failed with a statement error (the runs that main ends by itself, with  *)
(* no exception leaving it, are enough to decide this).                    *)
(***************************************************************************)
C15_ResultLogEmitted ==
    (pc = "done" /\ connection # "none" /\ escaped = "none")
        => emitted = results

(***************************************************************************)
(* C16: in a real run with dump_storage s3, when the upload fails after a  *)
(* successful local dump, dump_table returns the path, the local file      *)
(* stays, and the table goes on to its audit, delete and optimize steps; a *)
(* table is skipped only when the local dump itself failed.                *)
(***************************************************************************)
\* this step logged an upload error: S3Uploader() or upload_file raised
UploadFailed == upload_errors' = upload_errors + 1

\* this step skipped the current table
TableSkipped ==
    /\ Len(results') = Len(results) + 1
    /\ results'[Len(results')].kind = "SkipDump"

UploadFailureContinues ==
    UploadFailed =>
        /\ ~dry_run
        /\ success' = Some(DumpFile(Db.name, Tbl))
        /\ DumpFile(Db.name, Tbl) \in files'
        /\ s3' = s3
        /\ pc' = "audit"
        /\ <<di', ti'>> = <<di, ti>>
        /\ results' = results

SkipOnlyOnLocalFailure ==
    TableSkipped =>
        /\ success' = None
        /\ uploads' = uploads
        /\ upload_errors' = upload_errors
        /\ s3' = s3
        /\ DumpFile(Db.name, Tbl) \notin files'

C16_UploadFailureContinues ==
    [][UploadFailureContinues /\ SkipOnlyOnLocalFailure]_vars

\* a table dumped for s3 whose upload failed has reached its optimize step
C16_Witness ==
    /\ ~dry_run
    /\ pc = "optimize"
    /\ Tbl.dump_before
    /\ Lower(Tbl.dump_storage) = "s3"
    /\ upload_errors = 1
    /\ s3 = {}
    /\ DumpFile(Db.name, Tbl) \in files
    /\ HasEntry(Tbl, DeleteKinds)

(***************************************************************************)
(* Runs that may be killed at any point                                    *)
(***************************************************************************)
\* the delete step issues one DELETE without LIMIT
SingleDelete(t) ==
    /\ \/ Branch(t) = "condition" /\ TruthyStr(t.delete_condition)
       \/ Branch(t) = "older_than_days" /\ t.delete_older_than_days # None
    /\ ~TruthyInt(t.delete_batch_size)

\* the statement the step at pc passes to run_sql, if it passes one
InFlight ==
    CASE pc = "batch" ->
           {[kind |-> "DELETE", limit |-> Val(Tbl.delete_batch_size)]}
      [] pc = "delete" /\ Branch(Tbl) = "truncate" ->
           {[kind |-> "TRUNCATE", limit |-> 0]}
      [] pc = "delete" /\ Branch(Tbl) # "truncate" /\ SingleDelete(Tbl) ->
           {[kind |-> "DELETE", limit |-> 0]}
      [] pc = "optimize" /\ Tbl.run_optimize ->
           {[kind |-> "OPTIMIZE", limit |-> 0]}
      [] OTHER -> {}

\* killed between two steps
KillBetween ==
    /\ rows' = RolledBack
    /\ pending' = NoRows
    /\ UNCHANGED <<activeDb, results, emitted, sent, commits, committed, sleeps, procs,
                   dirs, files, s3, uploads, upload_errors, rowcount, cmdlog>>

\* killed inside run_sql or right after it, before the caller has appended
\* its entry: after cursor.execute and before connection.commit has
\* returned (a DELETE is undone, a TRUNCATE stays), or after run_sql has
\* returned or cursor.execute has raised
KillInStatement ==
    /\ Executes(dry_run)
    /\ \E x \in InFlight :
          \/ /\ sent' = Append(sent,
                     Stmt(x.kind, activeDb, Tbl.name, x.limit, TRUE))
             /\ rowcount' = Removed(x.kind, x.limit, rows[Tbl.name])
             /\ rows' = IF ImplicitCommit(x.kind)
                        THEN [rows EXCEPT ![Tbl.name] =
                                After(x.kind, x.limit, rows[Tbl.name])]
                        ELSE RolledBack
             /\ pending' = NoRows
             /\ committed' =
                   IF ImplicitCommit(x.kind)
                   THEN Append(committed,
                          Stmt(x.kind, activeDb, Tbl.name, x.limit, TRUE))
                   ELSE committed
             /\ UNCHANGED commits
          \/ \E o \in {"ok", "execute_error"} :
                RunSql(x.kind, Tbl.name, x.limit, o)
    /\ UNCHANGED <<activeDb, results, emitted, sleeps, procs, dirs, files, s3,
                   uploads, upload_errors, cmdlog>>

\* killed after cursor.execute of USE or of the foreign key query, before
\* the entry is appended
KillInQuery ==
    /\ \/ /\ pc = "select_db"
          /\ \E ok \in BOOLEAN :
                /\ sent' = Append(sent, Stmt("USE", Db.name, "", 0, ok))
                /\ activeDb' = IF ok THEN Db.name ELSE activeDb
                /\ rowcount' = IF ok THEN 0 ELSE -1
       \/ /\ pc = "audit"
          /\ Tbl.check_foreign_keys
          /\ \E o \in {"found", "empty", "error"} :
                /\ sent' = Append(sent,
                       Stmt("FK", activeDb, Tbl.name, 0, o # "error"))
                /\ rowcount' = CASE o = "found" -> 1 [] o = "empty" -> 0
                                  [] OTHER -> -1
          /\ UNCHANGED activeDb
    /\ rows' = RolledBack
    /\ pending' = NoRows
    /\ UNCHANGED <<results, emitted, commits, committed, sleeps, procs, dirs, files, s3,
                   uploads, upload_errors, cmdlog>>

\* killed inside dump_table: after os.makedirs, after the dry run log line,
\* while the child writes the file, after a failed dump was removed, while
\* upload_file runs or after it, before os.remove
KillInDump ==
    /\ pc = "dump"
    /\ Tbl.dump_before
    /\ dirs' = dirs \cup {Tbl.dump_path}
    /\ LET file == DumpFile(Db.name, Tbl)
           toS3 == Lower(Tbl.dump_storage) = "s3"
       IN  \E at \in {"makedirs", "logged", "dumping", "removed", "uploading",
                      "uploaded"} :
             /\ at = "logged" => dry_run
             /\ at \in {"dumping", "removed", "uploading", "uploaded"}
                   => ~dry_run
             /\ at \in {"uploading", "uploaded"} => toS3
             /\ cmdlog' = IF at = "logged"
                          THEN Append(cmdlog,
                                 MaskedDump(conn_params, Db.name, Tbl.name))
                          ELSE cmdlog
             /\ procs' = IF at \in {"makedirs", "logged"}
                         THEN procs ELSE procs + 1
             /\ files' = IF at \in {"dumping", "uploading", "uploaded"}
                         THEN files \cup {file} ELSE files
             /\ uploads' = IF at \in {"uploading", "uploaded"}
                           THEN uploads + 1 ELSE uploads
             /\ s3' = IF at = "uploaded"
                      THEN s3 \cup {S3Key(Db.name, Tbl)} ELSE s3
    /\ rows' = RolledBack
    /\ pending' = NoRows
    /\ UNCHANGED <<activeDb, results, emitted, sent, commits, committed, sleeps,
                   upload_errors, rowcount>>

\* killed inside time.sleep
KillInSleep ==
    /\ pc = "sleep"
    /\ sleeps' = Append(sleeps, [table |-> Tbl.name, after |-> Len(results)])
    /\ rows' = RolledBack
    /\ pending' = NoRows
    /\ UNCHANGED <<activeDb, results, emitted, sent, commits, committed, procs, dirs,
                   files, s3, uploads, upload_errors, rowcount, cmdlog>>

\* killed inside the loop that logs the results
KillInSummary ==
    /\ pc = "summary"
    /\ \E n \in 0..Len(results) : emitted' = SubSeq(results, 1, n)
    /\ rows' = RolledBack
    /\ pending' = NoRows
    /\ UNCHANGED <<activeDb, results, sent, commits, committed, sleeps, procs, dirs,
                   files, s3, uploads, upload_errors, rowcount, cmdlog>>

\* the process is killed, between two steps or inside one: the server drops
\* the session and rolls back what the session had not committed
Kill ==
    /\ pc \notin {"done", "killed"}
    /\ trace' = Append(trace, pc)
    /\ pc' = "killed"
    /\ connection' = IF connection = "open" THEN "closed" ELSE connection
    /\ \/ KillBetween
       \/ KillInStatement
       \/ KillInQuery
       \/ KillInDump
       \/ KillInSleep
       \/ KillInSummary
    /\ UNCHANGED <<dry_run, config, conn_params, prev, round, writes, rows0,
                   success, di, ti, exc, escaped>>

NextKill == Next \/ Kill

SpecKill == Init /\ [][NextKill]_vars

\* sum of the affected counts of a sequence of entries
RECURSIVE SumN(_)
SumN(es) == IF es = <<>> THEN 0 ELSE es[1].n + SumN(Tail(es))

(***************************************************************************)
(* C17: in a real run every batch is committed on its own before the next  *)
(* batch and before any pause: between two statements nothing is           *)
(* uncommitted (deletions stay uncommitted only when connection.commit     *)
(* raised, and then no statement follows), so a run killed at any point    *)
(* leaves each batched table without exactly the rows of its committed     *)
(* batches, the one batch in flight at most being undone.                  *)
(***************************************************************************)
\* the statements run_sql has executed without an Error, in order
Executed == SelectSeq(sent, LAMBDA x : x.kind \in Mutating /\ x.ok)

\* the committed DELETE ... LIMIT statements of table t
CommittedBatches(t) ==
    Len(SelectSeq(committed,
                  LAMBDA x : x.kind = "DELETE" /\ x.table = t /\ x.limit > 0))

\* the run is over or on its way out: no statement follows
NoStatementFollows == pc \in {"except", "finally", "done", "killed"}

\* deletions are uncommitted only while the Error of a failed commit ends
\* the run, and every executed statement is committed but at most the last
\* one sent, a DELETE after which no statement follows
NothingUncommitted ==
    /\ pending # NoRows => pc \in {"except", "finally"}
    /\ \/ committed = Executed
       \/ /\ Len(Executed) = Len(committed) + 1
          /\ committed = SubSeq(Executed, 1, Len(committed))
          /\ Executed[Len(Executed)].kind = "DELETE"
          /\ sent[Len(sent)] = Executed[Len(Executed)]
          /\ NoStatementFollows

\* what the server holds for each batched table, the uncommitted deletions
\* undone, is the table without its committed batches
WholeBatchesRemoved ==
    ~dry_run =>
        \A d \in 1..Len(config) : \A i \in 1..Len(config[d].tables) :
            LET t == config[d].tables[i]
                K == rows0[t.name].match
            IN  Batched(t) =>
                  /\ RolledBack[t.name].match =
                        K - Min(K, Val(t.delete_batch_size)
                                     * CommittedBatches(t.name))
                  /\ RolledBack[t.name].other = rows0[t.name].other
                  /\ pc \in {"done", "killed"}
                        => rows[t.name] = RolledBack[t.name]

Connected(tr) == Len(tr) > 1 /\ tr[2] \in {"select_db", "summary"}

\* the run has ended by itself: the session was connected, no exception,
\* every statement succeeded, no dump failed, no row was affected
CleanRun ==
    /\ pc = "done"
    /\ Connected(trace)
    /\ escaped = "none"
    /\ \A x \in Range(sent) : x.ok
    /\ \A e \in Range(results) :
          e.kind \notin {"SkipDump", "TruncateError", "OptimizeError"} /\ e.n = 0
    /\ emitted = results
    /\ rows = rows0

\* main is started again with --dry-run on the same configuration file; the
\* filesystem and the bucket are as the first run left them
Restart ==
    /\ round = 0
    /\ ~dry_run
    /\ CleanRun
    /\ round' = 1
    /\ dry_run' = TRUE
    /\ prev' = [results |-> results, trace |-> trace]
    /\ trace' = <<>>
    /\ success' = None
    /\ pc' = "connect"
    /\ di' = 1
    /\ ti' = 0
    /\ connection' = "none"
    /\ activeDb' = ""
    /\ results' = <<>>
    /\ emitted' = <<>>
    /\ sent' = <<>>
    /\ commits' = 0
    /\ committed' = <<>>
    /\ sleeps' = <<>>
    /\ procs' = 0
    /\ uploads' = 0
    /\ upload_errors' = 0
    /\ rowcount' = -1
    /\ exc' = "none"
    /\ escaped' = "none"
    /\ UNCHANGED <<config, conn_params, cmdlog, writes, rows0, rows, pending,
                   dirs, files, s3>>

InitReplay ==
    /\ dry_run = FALSE
    /\ config \in Configs
    /\ rows \in InitRows(config)
    /\ conn_params = DefaultParams
    /\ Start

NextReplay == Next \/ Restart

SpecReplay == InitReplay /\ [][NextReplay]_vars

AuditAnswers(log) == SelectSeq(log, LAMBDA e : e.kind \in AuditKinds)

\* the entries without the statement result they quote
EraseRes(log) == [i \in 1..Len(log) |-> [log[i] EXCEPT !.res = "None"]]

\* the dry run that followed a clean real run has ended by itself, and the
\* server answered its statements as it answered those of the real run
Compared ==
    /\ round = 1
    /\ pc = "done"
    /\ Connected(trace)
    /\ escaped = "none"
    /\ \A x \in Range(sent) : x.ok
    /\ AuditAnswers(results) = AuditAnswers(prev.results)

\* C18 as stated: a dry run takes the same steps in the same order as a
\* real run of the same configuration whose dumps and statements succeed
\* affecting no row, and appends the same ResultLog entries.
C18_SameEntries ==
    Compared => trace = prev.trace /\ results = prev.results

\* C18 amended: the same steps in the same order and the same entries but
\* for the statement result quoted in an optimize entry (None in dry run);
\* no table is skipped for its dump in dry run.
C18_SameSteps ==
    /\ Compared =>
          /\ trace = prev.trace
          /\ EraseRes(results) = EraseRes(prev.results)
          /\ \A i \in 1..Len(results) :
                results[i] # prev.results[i] => results[i].kind = "Optimized"
    /\ dry_run => \A e \in Range(results) : e.kind # "SkipDump"

\* a dumped, batched and optimized table went through both runs
C18_Witness ==
    /\ Compared
    /\ config \in SingleConfigs
    /\ config[1].tables[1].dump_before
    /\ "batch" \in Range(trace)
    /\ HasEntry(config[1].tables[1], {"Optimized"})
    /\ HasEntry(config[1].tables[1], AuditKinds)

(***************************************************************************)
(* Runs beside another session that writes to the table being deleted from *)
(***************************************************************************)
\* another session commits a row matching the predicate, or removes one,
\* while process_table is in the batch loop of the table: before a DELETE
\* statement, during a pause, or after the last DELETE has returned
ExternalWrite ==
    /\ pc \in {"batch", "sleep", "optimize"}
    /\ Batched(Tbl)
    /\ ~dry_run
    /\ writes < MaxWrites
    /\ writes' = writes + 1
    /\ \E m \in {rows[Tbl.name].match - 1, rows[Tbl.name].match + 1} :
          /\ m \in 0..MaxRows
          /\ rows' = [rows EXCEPT ![Tbl.name].match = m]
    /\ UNCHANGED <<dry_run, config, conn_params, upload_errors, cmdlog, prev, round, pending,
                   trace, rows0, success, pc, di, ti, connection, activeDb,
                   results, emitted, sent, commits, committed, sleeps, procs, dirs, files,
                   s3, uploads, rowcount, exc, escaped>>

NextWriter == Next \/ ExternalWrite

\* configurations without a dump
PlainConfigs ==
    {c \in Configs :
        \A d \in 1..Len(c) : \A i \in 1..Len(c[d].tables) :
            ~c[d].tables[i].dump_before}

InitPlain ==
    /\ dry_run \in BOOLEAN
    /\ config \in PlainConfigs
    /\ rows \in InitRows(config)
    /\ conn_params = DefaultParams
    /\ Start

SpecWriter == InitPlain /\ [][NextWriter]_vars

(***************************************************************************)
(* C19: with a concurrent writer a batch can affect fewer than B rows while *)
(* rows matching the predicate are or come to be in the table; the loop    *)
(* then ends with matching rows present, and the step is recorded as a     *)
(* normal completion.                                                      *)
(***************************************************************************)
\* the loop of the current table ended the normal way: every batch but the
\* last was full, the last one was short, each has its plain entry, and no
\* exception is on its way
EndedNormally ==
    LET es == BatchEntries(Tbl.name)
        B == Val(Tbl.delete_batch_size)
    IN  /\ Len(es) >= 1
        /\ es[Len(es)].n < B
        /\ \A j \in 1..(Len(es) - 1) : es[j].n = B
        /\ results[Len(results)] = es[Len(es)]
        /\ exc = "none"
        /\ ~HasEntry(Tbl, {"DeleteError"})

C19_EndsWithRowsLeft == LoopEnded => EndedNormally

\* the loop has ended on a short batch although more rows matched when it
\* started than it deleted, and a matching row is in the table
C19_Witness ==
    /\ LoopEnded
    /\ ~dry_run
    /\ writes > 0
    /\ rows[Tbl.name].match > 0
    /\ SumN(BatchEntries(Tbl.name)) < rows0[Tbl.name].match
    /\ trace[Len(trace)] = "batch"

(***************************************************************************)
(* Runs that keep going: main is one thread, and every call it makes       *)
(* returns or raises                                                       *)
(***************************************************************************)
FairSpec == InitPlain /\ [][Next]_vars /\ WF_vars(Next)

(***************************************************************************)
(* C20: in a real run without other writers and without a statement error  *)
(* a batched delete with B > 0 always terminates; when it has, no matching *)
(* row is left, the counts of its 'Batch deleted' entries sum to K, and    *)
(* the rows that do not match are untouched.                               *)
(***************************************************************************)
DeletesAllMatching ==
    (LoopEnded /\ ~dry_run) =>
        /\ rows[Tbl.name].match = 0
        /\ SumN(BatchEntries(Tbl.name)) = rows0[Tbl.name].match
        /\ rows[Tbl.name].other = rows0[Tbl.name].other

InBatchLoop == pc \in {"batch", "sleep"}

C20_BatchedDeleteCompletes ==
    /\ []DeletesAllMatching
    /\ InBatchLoop ~> ~InBatchLoop

\* five matching rows and one other: batches 2, 2, 1, the other row stays
C20_Witness ==
    /\ LoopEnded
    /\ ~dry_run
    /\ Val(Tbl.delete_batch_size) = 2
    /\ rows0[Tbl.name] = [match |-> 5, other |-> 1]
    /\ rows[Tbl.name] = [match |-> 0, other |-> 1]
    /\ Len(BatchEntries(Tbl.name)) = 3
    /\ SumN(BatchEntries(Tbl.name)) = 5

====
